---- MODULE Spec2Model ----
(***************************************************************************)
(* Model of the Kodi TVmaze scrobbler helper libraries:                    *)
(*                                                                         *)
(*   script.tvmaze.scrobbler/libs/kodi_service.py                          *)
(*       LocalizationService: the strings.po -> {string: id} mapping,      *)
(*       cached in strings-map.pickle and guarded by an md5 of strings.po  *)
(*   script.tvmaze/libs/kodi_api.py                                        *)
(*       the JSON-RPC wrappers over Kodi's video library                   *)
(*                                                                         *)
(* Files, the pickle payload, exceptions and the host (Kodi) are values:   *)
(* a file is a record telling what open()/read()/pickle.load() make of it, *)
(* an exception is the name of its class, "none" when nothing was raised.  *)
(***************************************************************************)
EXTENDS Integers, Sequences, FiniteSets, TLC

VARIABLES
    catalog,    \* resources/language/resource.language.en_gb/strings.po
    cache,      \* <profile>/strings-map.pickle
    state,      \* "UNINITIALIZED" | "READY": does a LocalizationService exist
    _mapping,   \* LocalizationService._mapping of the live instance
    library,    \* Kodi's video library: episodeid -> [tvshowid, playcount]
    pending,    \* set_episode_playcount between its two requests, or Idle
    last,       \* what the last call did: its name, argument, exception, result
    seq         \* parity of the number of calls completed so far

vars == <<catalog, cache, state, _mapping, library, pending, last, seq>>

(***************************************************************************)
(* Bounds of the model.                                                    *)
(***************************************************************************)
\* longest catalog (in records) the parser is run on by itself
MaxRecords == 3
\* longest catalog (in records) installed while the cache is exercised
MaxCatalogRecords == 2
\* TV shows in the video library
MaxShows == 2
\* episodes in the video library
MaxEpisodes == 2
\* largest playcount an episode reaches
MaxPlaycount == 2

(***************************************************************************)
(* strings.po as text.  A catalog file is a sequence of (id, string)       *)
(* records written in one of the layouts below; reading it gives the       *)
(* sequence of its lines.                                                  *)
(***************************************************************************)
MsgIds == {100, 101, 102}
MsgStrings == {"", "Play", "Stop"}
PoRecord == [id : MsgIds, s : MsgStrings]

\* "bare": msgctxt/msgid pairs and nothing else; "po": gettext header, then msgctxt/msgid/msgstr and a blank
\* line per record; "crlf": "po" with \r\n line ends.
Layouts == {"bare", "po", "crlf"}

NoDigits == << >>

\* the decimal digits of n, as "%d" writes them
RECURSIVE Digits(_)
Digits(n) == IF n < 10 THEN <<n>> ELSE Digits(n \div 10) \o <<n % 10>>

\* One line of text: k is what the line starts with, id the digits between
\* '"#' and '"' of a msgctxt line, s the text between the quotes of a msgid
\* line, cr whether the line ends in \r.
CtxtLine(n, cr) == [k |-> "msgctxt", id |-> Digits(n), s |-> "", cr |-> cr]
IdLine(s, cr) == [k |-> "msgid", id |-> NoDigits, s |-> s, cr |-> cr]
OtherLine(cr) == [k |-> "other", id |-> NoDigits, s |-> "", cr |-> cr]

RECURSIVE RenderRecords(_, _)
RenderRecords(recs, layout) ==
    IF recs = << >> THEN << >>
    ELSE LET r == Head(recs)
             cr == (layout = "crlf")
         IN  (IF layout = "bare"
              THEN <<CtxtLine(r.id, cr), IdLine(r.s, cr)>>
              ELSE <<CtxtLine(r.id, cr), IdLine(r.s, cr),
                     OtherLine(cr), OtherLine(cr)>>)
             \o RenderRecords(Tail(recs), layout)

\* the header of a .po file is an entry with an empty msgid and no msgctxt
RenderCatalog(recs, layout) ==
    (IF layout = "bare" THEN << >>
     ELSE LET cr == (layout = "crlf")
          IN  <<IdLine("", cr), OtherLine(cr), OtherLine(cr)>>)
    \o RenderRecords(recs, layout)

\* the catalogs of at most n records drawn from recs
RecordSeqs(recs, n) == UNION {[1..k -> recs] : k \in 0..n}

NoCatalog == [exists |-> FALSE, records |-> << >>, layout |-> "bare"]
CatalogFile(recs, layout) == [exists |-> TRUE, records |-> recs, layout |-> layout]
CatalogFiles(recs, n, layouts) ==
    {CatalogFile(rs, lay) : rs \in RecordSeqs(recs, n), lay \in layouts}

\* the versions of strings.po installed while the cache is exercised
InstalledRecords ==
    {[id |-> 100, s |-> "Play"], [id |-> 101, s |-> ""], [id |-> 102, s |-> "Play"]}
InstalledCatalogs == CatalogFiles(InstalledRecords, MaxCatalogRecords, {"po"})

(***************************************************************************)
(* LocalizationService                                                     *)
(***************************************************************************)
EmptyDict == [k \in {} |-> 0]

\* d[k] = v of a Python dict
DictSet(d, k, v) == [x \in (DOMAIN d) \cup {k} |-> IF x = k THEN v ELSE d[x]]

\* int(string_id)
RECURSIVE ParseInt(_)
ParseInt(digits) ==
    IF digits = << >> THEN 0
    ELSE 10 * ParseInt(SubSeq(digits, 1, Len(digits) - 1)) + digits[Len(digits)]

\* _load_strings_po: the bytes of the file
_load_strings_po(file) == RenderCatalog(file.records, file.layout)

\* Md5HexDigest taken of something that is the same for every strings.po
Md5OfNothing(bytes) == <<"md5", << >>>>

\* hashlib.md5(strings_po).hexdigest(): equal bytes give equal digests and,
\* md5 taken as collision free, only equal bytes do
Md5HexDigest(bytes) == <<"md5", bytes>>

\* r'^msgctxt "#(\d+?)"\r?\nmsgid "(.*)"\r?$' at line i of the text
MatchAt(text, i) ==
    /\ i + 1 <= Len(text)
    /\ text[i].k = "msgctxt"
    /\ Len(text[i].id) >= 1
    /\ text[i + 1].k = "msgid"

\* re.findall(..., re.M): the matches from line i on, left to right, none
\* overlapping another
RECURSIVE FindAllFrom(_, _)
FindAllFrom(text, i) ==
    IF i > Len(text) THEN << >>
    ELSE IF MatchAt(text, i)
         THEN <<[string_id |-> text[i].id, string |-> text[i + 1].s]>>
              \o FindAllFrom(text, i + 2)
         ELSE FindAllFrom(text, i + 1)

\* DictComprehension in which the first pair of a string wins
RECURSIVE DictComprehensionFirstWins(_, _)
DictComprehensionFirstWins(pairs, n) ==
    IF n = 0 THEN [k \in {} |-> 0]
    ELSE LET d == DictComprehensionFirstWins(pairs, n - 1)
             p == pairs[n]
         IN  IF p.string # "" /\ p.string \notin DOMAIN d
             THEN [x \in (DOMAIN d) \cup {p.string} |->
                     IF x = p.string THEN ParseInt(p.string_id) ELSE d[x]]
             ELSE d

\* {string: int(string_id) for string_id, string in pairs if string},
\* over the first n pairs: a later pair overwrites an earlier one
RECURSIVE DictComprehension(_, _)
DictComprehension(pairs, n) ==
    IF n = 0 THEN EmptyDict
    ELSE LET d == DictComprehension(pairs, n - 1)
             p == pairs[n]
         IN  IF p.string # ""
             THEN DictSet(d, p.string, ParseInt(p.string_id))
             ELSE d

_parse_strings_po(strings_po) ==
    LET id_string_pairs == FindAllFrom(strings_po, 1)
    IN  DictComprehension(id_string_pairs, Len(id_string_pairs))


(***************************************************************************)
(* strings-map.pickle.  kind tells what opening and unpickling the file    *)
(* does: "absent" (open raises IOError), "truncated" (pickle.load raises   *)
(* EOFError), "malformed" (pickle.load raises UnpicklingError), "list"     *)
(* (a pickled object that is no dict), "dict" (a pickled dict with the     *)
(* keys in keys; md5 and strings are its values under those keys).         *)
(***************************************************************************)
NoDigest == << >>

CacheFile(kind) ==
    [kind |-> kind, keys |-> {}, md5 |-> NoDigest, strings |-> EmptyDict]
CacheAbsent == CacheFile("absent")
CacheTruncated == CacheFile("truncated")
CacheMalformed == CacheFile("malformed")

\* the file pickle.dump(mapping, fo, protocol=2) leaves for
\* mapping = {'strings': strings, 'md5': md5}
PickleDump(strings, md5) ==
    [kind |-> "dict", keys |-> {"md5", "strings"}, md5 |-> md5, strings |-> strings]

\* open(self._string_mapping_path, 'rb') and pickle.load(fo)
PickleLoad(file) ==
    CASE file.kind = "absent" -> [err |-> "IOError", obj |-> file]
      [] file.kind = "truncated" -> [err |-> "EOFError", obj |-> file]
      [] file.kind = "malformed" -> [err |-> "UnpicklingError", obj |-> file]
      [] OTHER -> [err |-> "none", obj |-> file]

\* mapping[key] of the unpickled object: the exception it raises
GetItemError(obj, key) ==
    IF obj.kind # "dict" THEN "TypeError"
    ELSE IF key \notin obj.keys THEN "KeyError"
    ELSE "none"

\* DigestMatches comparing the stored digest with something it never equals
DigestNeverMatches(stored, strings_po_md5) == stored = <<"bytes", strings_po_md5>>

\* the test of line 129: is mapping['md5'] the digest of strings.po
DigestMatches(stored, strings_po_md5) == stored = strings_po_md5

\* the try block, lines 126-130: the exception that leaves it
TryReadCache(file, strings_po_md5) ==
    LET load == PickleLoad(file)
    IN  IF load.err # "none" THEN load.err
        ELSE IF GetItemError(load.obj, "md5") # "none"
             THEN GetItemError(load.obj, "md5")
        ELSE IF ~DigestMatches(load.obj.md5, strings_po_md5)
             THEN "IOError"
        ELSE "none"

\* what "except IOError" catches
CaughtByExceptIOError(exc) == exc = "IOError"

\* How open(path, 'wb') and pickle.dump end.  "ok": the file holds the
\* pickle.  "open_fails": open raises IOError and the file is as it was.
\* "dump_fails": open has emptied the file and the write raises IOError with
\* the file holding a prefix of the pickle on which pickle.load runs out of
\* input (the empty prefix is one).  "dump_cut": the same with a prefix on
\* which pickle.load raises UnpicklingError.
WriteOutcomes == {"ok", "open_fails", "dump_fails", "dump_cut"}

\* WriteCache that keeps the digest the cache file held
WriteCacheOldDigest(file, strings, md5, outcome) ==
    [err |-> "none", file |-> PickleDump(strings, file.md5)]

\* lines 137-138
WriteCache(file, strings, md5, outcome) ==
    CASE outcome = "ok" -> [err |-> "none", file |-> PickleDump(strings, md5)]
      [] outcome = "open_fails" -> [err |-> "IOError", file |-> file]
      [] outcome = "dump_fails" -> [err |-> "IOError", file |-> CacheTruncated]
      [] outcome = "dump_cut" -> [err |-> "IOError", file |-> CacheMalformed]

\* the except block, lines 132-138, and the return of line 139
RebuildMapping(strings_po, strings_po_md5, file, outcome) ==
    LET strings_mapping == _parse_strings_po(strings_po)
        w == WriteCache(file, strings_mapping, strings_po_md5, outcome)
    IN  [err |-> w.err, ret |-> strings_mapping, file |-> w.file,
         path |-> "rebuild", wrote |-> TRUE]

\* _load_strings_mapping: the exception raised, the mapping returned, the
\* cache file left behind, the path taken and whether lines 137-138 (the
\* write of the cache file) were reached
_load_strings_mapping(po_file, file, outcome) ==
    LET strings_po == _load_strings_po(po_file)
        strings_po_md5 == Md5HexDigest(strings_po)
        exc == TryReadCache(file, strings_po_md5)
    IN  IF exc = "none"
        THEN [err |-> GetItemError(file, "strings"), ret |-> file.strings,
              file |-> file, path |-> "hit", wrote |-> FALSE]
        ELSE IF CaughtByExceptIOError(exc)
        THEN RebuildMapping(strings_po, strings_po_md5, file, outcome)
        ELSE [err |-> exc, ret |-> EmptyDict, file |-> file,
              path |-> "none", wrote |-> FALSE]

\* PathExists without the check
PathExistsUnchecked(file) == TRUE

\* os.path.exists(self._en_gb_string_po_path)
PathExists(file) == file.exists

\* ADDON.getLocalizedString(string_id): Kodi's table of the running
\* language; an id it does not know gives the empty string
getLocalizedString(string_id) ==
    CASE string_id = 100 -> "Abspielen"
      [] string_id = 102 -> "Stopp"
      [] OTHER -> ""

(***************************************************************************)
(* What a call leaves in last.                                             *)
(***************************************************************************)
NoArg == "-"
NoCalls == << >>
\* no set_episode_playcount is under way
Idle == [pc |-> "idle", episode_id |-> 0, playcount |-> 0, calls |-> NoCalls]
Summary(op, arg, err, ret, path, wrote, calls) ==
    [op |-> op, arg |-> arg, err |-> err, ret |-> ret, path |-> path,
     wrote |-> wrote, calls |-> calls]
\* (for LocalizationService() arg is the kind of cache file the call found)
\* a step of the environment, not a call
EnvStep == Summary("env", NoArg, "none", "", "none", FALSE, NoCalls)

EnStrings == {"Play", "NoSuchString", ""}

(***************************************************************************)
(* Operations of LocalizationService                                       *)
(***************************************************************************)
\* LocalizationService(), lines 99-107, with the cache write ending in outcome
Initialize(outcome) ==
    /\ seq' = 1 - seq
    /\ UNCHANGED <<catalog, library, pending>>
    /\ IF ~PathExists(catalog)
       THEN /\ last' = Summary("initialize", cache.kind, "LocalizationError", "",
                               "none", FALSE, NoCalls)
            /\ state' = "UNINITIALIZED"
            /\ _mapping' = EmptyDict
            /\ cache' = cache
       ELSE LET r == _load_strings_mapping(catalog, cache, outcome)
            IN  /\ last' = Summary("initialize", cache.kind, r.err, "",
                                   r.path, r.wrote, NoCalls)
                /\ cache' = r.file
                /\ state' = IF r.err = "none" THEN "READY" ELSE "UNINITIALIZED"
                /\ _mapping' = IF r.err = "none" THEN r.ret ELSE EmptyDict

\* Gettext giving the English string back when it is not in the mapping
GettextFallback(en_string) ==
    /\ state = "READY"
    /\ seq' = 1 - seq
    /\ UNCHANGED <<catalog, cache, state, _mapping, library, pending>>
    /\ last' = Summary("gettext", en_string, "none",
                       IF en_string \in DOMAIN _mapping
                       THEN getLocalizedString(_mapping[en_string])
                       ELSE en_string,
                       "none", FALSE,
                       IF en_string \in DOMAIN _mapping
                       THEN <<[method |-> "getLocalizedString",
                               params |-> _mapping[en_string],
                               reply |-> getLocalizedString(_mapping[en_string])]>>
                       ELSE NoCalls)

\* gettext, lines 154-167
Gettext(en_string) ==
    /\ state = "READY"
    /\ seq' = 1 - seq
    /\ UNCHANGED <<catalog, cache, state, _mapping, library, pending>>
    /\ IF en_string \in DOMAIN _mapping
       THEN LET string_id == _mapping[en_string]
            IN  last' = Summary("gettext", en_string, "none",
                                getLocalizedString(string_id), "none", FALSE,
                                <<[method |-> "getLocalizedString",
                                   params |-> string_id,
                                   reply |-> getLocalizedString(string_id)]>>)
       ELSE last' = Summary("gettext", en_string, "LocalizationError", "",
                            "none", FALSE, NoCalls)

(***************************************************************************)
(* The environment of the add-on                                           *)
(***************************************************************************)
\* the add-on is installed or upgraded: strings.po gets new content
InstallCatalog(file) ==
    /\ catalog # file
    /\ catalog' = file
    /\ last' = EnvStep
    /\ UNCHANGED <<cache, state, _mapping, library, seq, pending>>

\* strings.po is removed
RemoveCatalog ==
    /\ catalog.exists
    /\ catalog' = NoCatalog
    /\ last' = EnvStep
    /\ UNCHANGED <<cache, state, _mapping, library, seq, pending>>

\* Something other than the add-on leaves the cache file truncated,
\* malformed or holding another pickle.
ForeignDigest == Md5HexDigest(<<OtherLine(FALSE)>>)
ForeignStrings == [s \in {"Play"} |-> 7]
ForeignDict(keys, md5) ==
    [kind |-> "dict", keys |-> keys,
     md5 |-> IF "md5" \in keys THEN md5 ELSE NoDigest,
     strings |-> IF "strings" \in keys THEN ForeignStrings ELSE EmptyDict]
ForeignCaches ==
    {CacheFile(k) : k \in {"absent", "truncated", "malformed", "list"}}
    \cup {ForeignDict(keys, md5) :
            keys \in SUBSET {"md5", "strings"},
            md5 \in {ForeignDigest, Md5HexDigest(_load_strings_po(catalog))}}

TamperCache(file) ==
    /\ cache # file
    /\ cache' = file
    /\ last' = EnvStep
    /\ UNCHANGED <<catalog, state, _mapping, library, seq, pending>>

(***************************************************************************)
(* Kodi's JSON-RPC interface, as kodi_api.py uses it.  library maps the    *)
(* id of each episode in the video library to its show and playcount.      *)
(***************************************************************************)
TvShowIds == 1..MaxShows
EpisodeIds == 1..MaxEpisodes
NoLibrary == [e \in {} |-> 0]

SetMin(S) == CHOOSE m \in S : \A x \in S : m <= x
SetMax(S) == CHOOSE m \in S : \A x \in S : x <= m

RECURSIVE Ascending(_)
Ascending(S) == IF S = {} THEN << >> ELSE <<SetMin(S)>> \o Ascending(S \ {SetMin(S)})
RECURSIVE Descending(_)
Descending(S) == IF S = {} THEN << >> ELSE <<SetMax(S)>> \o Descending(S \ {SetMax(S)})

EpisodeData(lib, e) ==
    [episodeid |-> e, tvshowid |-> lib[e].tvshowid, playcount |-> lib[e].playcount]
EpisodeList(lib, ids) == [i \in DOMAIN ids |-> EpisodeData(lib, ids[i])]
TvShowList(ids) == [i \in DOMAIN ids |-> [tvshowid |-> ids[i]]]

\* The 'result' objects Kodi may give for a list: the list under key and,
\* for an empty list, also a result without the key.
ListResults(key, list) ==
    {[k \in {"limits", key} |-> IF k = key THEN list ELSE Len(list)]}
    \cup (IF list = << >>
          THEN {[k \in {"limits"} |-> 0]}
          ELSE {})

ResultReplies(results) == {[id |-> "1", result |-> r] : r \in results}
ErrorReply == [id |-> "1", error |-> "Invalid params."]

\* xbmc.executeJSONRPC: the replies Kodi may give to a request
HostReplies(lib, method, params) ==
    CASE method = "VideoLibrary.GetTVShows" ->
           ResultReplies(ListResults("tvshows",
               TvShowList(Ascending({lib[e].tvshowid : e \in DOMAIN lib}))))
      [] method = "VideoLibrary.GetEpisodes" ->
           ResultReplies(ListResults("episodes",
               EpisodeList(lib, Ascending(
                   {e \in DOMAIN lib : lib[e].tvshowid = params.tvshowid}))))
      [] method = "VideoLibrary.GetRecentlyAddedEpisodes" ->
           ResultReplies(ListResults("episodes",
               EpisodeList(lib, Descending(DOMAIN lib))))
      [] method = "VideoLibrary.GetEpisodeDetails" ->
           IF params.episodeid \in DOMAIN lib
           THEN ResultReplies(
                  {[episodedetails |-> EpisodeData(lib, params.episodeid)]})
           ELSE {ErrorReply}
      [] method = "VideoLibrary.SetEpisodeDetails" ->
           IF params.episodeid \in DOMAIN lib
           THEN ResultReplies({"OK"})
           ELSE {ErrorReply}

\* the library after Kodi has served the request
HostLibrary(lib, method, params) ==
    IF method = "VideoLibrary.SetEpisodeDetails" /\ params.episodeid \in DOMAIN lib
    THEN [lib EXCEPT ![params.episodeid].playcount = params.playcount]
    ELSE lib

\* send_json_rpc, lines 38-49, on Kodi's reply: json_reply['result']
send_json_rpc(method, params, json_reply) ==
    IF "result" \in DOMAIN json_reply
    THEN [err |-> "none", result |-> json_reply.result,
          call |-> [method |-> method, params |-> params]]
    ELSE [err |-> "KeyError", result |-> "",
          call |-> [method |-> method, params |-> params]]

\* result.get(key): None when the key is missing
DictGet(d, key) ==
    IF key \in DOMAIN d THEN [none |-> FALSE, val |-> d[key]]
    ELSE [none |-> TRUE, val |-> << >>]

\* bool(x) of x = None or a list
ListTruthy(x) == ~x.none /\ x.val # << >>

\* bool(n) of an int
IntTruthy(n) == n # 0

\* ListOrNoData that tests only for the key
ListOrNoDataKeyOnly(result, key) ==
    IF key \notin DOMAIN result
    THEN [err |-> "NoDataError", ret |-> << >>]
    ELSE [err |-> "none", ret |-> result[key]]

\* "if not result.get(key): raise NoDataError" and "return result[key]",
\* lines 72-74, 100-102 and 115-117
ListOrNoData(result, key) ==
    IF ~ListTruthy(DictGet(result, key))
    THEN [err |-> "NoDataError", ret |-> << >>]
    ELSE [err |-> "none", ret |-> result[key]]

\* what get_tvshows, get_episodes and get_recent_episodes do with the reply
QueryList(op, arg, method, params, key, json_reply) ==
    LET r == send_json_rpc(method, params, json_reply)
        out == IF r.err # "none"
               THEN [err |-> r.err, ret |-> << >>]
               ELSE ListOrNoData(r.result, key)
    IN  /\ pending = Idle
        /\ last' = Summary(op, arg, out.err, out.ret, "none", FALSE,
                           <<[method |-> method, params |-> params,
                              reply |-> json_reply]>>)
        /\ seq' = 1 - seq
        /\ UNCHANGED <<catalog, cache, state, _mapping, library, pending>>

\* get_tvshows, lines 52-74
GetTvshows ==
    LET method == "VideoLibrary.GetTVShows"
        params == [properties |-> <<"uniqueid">>]
    IN  \E json_reply \in HostReplies(library, method, params) :
            QueryList("get_tvshows", NoArg, method, params, "tvshows", json_reply)

\* get_episodes, lines 77-102
GetEpisodes(tvshowid) ==
    LET method == "VideoLibrary.GetEpisodes"
        params == [tvshowid |-> tvshowid]
    IN  \E json_reply \in HostReplies(library, method, params) :
            QueryList("get_episodes", tvshowid, method, params, "episodes",
                      json_reply)

\* get_recent_episodes, lines 105-117
GetRecentEpisodes ==
    LET method == "VideoLibrary.GetRecentlyAddedEpisodes"
        params == [properties |-> <<"playcount">>]
    IN  \E json_reply \in HostReplies(library, method, params) :
            QueryList("get_recent_episodes", NoArg, method, params, "episodes",
                      json_reply)

\* get_episode_details, lines 120-133, on Kodi's reply
get_episode_details(episode_id, json_reply) ==
    LET r == send_json_rpc("VideoLibrary.GetEpisodeDetails",
                           [episodeid |-> episode_id], json_reply)
    IN  IF r.err # "none" THEN [err |-> r.err, ret |-> "None"]
        ELSE [err |-> "none", ret |-> r.result.episodedetails]

GetEpisodeDetails(episode_id) ==
    LET method == "VideoLibrary.GetEpisodeDetails"
        params == [episodeid |-> episode_id]
    IN  \E json_reply \in HostReplies(library, method, params) :
            LET r == get_episode_details(episode_id, json_reply)
            IN  /\ pending = Idle
                /\ last' = Summary("get_episode_details", episode_id, r.err,
                                   r.ret, "none", FALSE,
                                   <<[method |-> method, params |-> params,
                                      reply |-> json_reply]>>)
                /\ seq' = 1 - seq
                /\ UNCHANGED <<catalog, cache, state, _mapping, library, pending>>

\* int(bool(original_playcount))
WatchedFlag(playcount) == IF IntTruthy(playcount) THEN 1 ELSE 0

\* NeedsUpdate comparing with the playcount itself
NeedsUpdateRaw(playcount, original_playcount) ==
    playcount # original_playcount

\* the test of line 145
NeedsUpdate(playcount, original_playcount) ==
    playcount # WatchedFlag(original_playcount)

\* set_episode_playcount, lines 144-145: the request for the episode's
\* details and the test.  The call ends here when the request fails or no
\* update is needed; else it goes on to line 146 with the details it read.
SetEpisodePlaycount(episode_id, playcount) ==
    LET get == "VideoLibrary.GetEpisodeDetails"
        getp == [episodeid |-> episode_id]
    IN  \E reply1 \in HostReplies(library, get, getp) :
            LET details == get_episode_details(episode_id, reply1)
                call1 == [method |-> get, params |-> getp, reply |-> reply1]
            IN  /\ pending = Idle
                /\ UNCHANGED <<catalog, cache, state, _mapping, library>>
                /\ IF details.err # "none"
                   THEN /\ last' = Summary("set_episode_playcount",
                                           <<episode_id, playcount>>, details.err,
                                           "None", "none", FALSE, <<call1>>)
                        /\ seq' = 1 - seq
                        /\ pending' = Idle
                   ELSE IF NeedsUpdate(playcount, details.ret.playcount)
                   THEN /\ pending' = [pc |-> "line146",
                                       episode_id |-> episode_id,
                                       playcount |-> playcount,
                                       calls |-> <<call1>>]
                        /\ UNCHANGED <<last, seq>>
                   ELSE /\ last' = Summary("set_episode_playcount",
                                           <<episode_id, playcount>>, "none",
                                           "None", "none", FALSE, <<call1>>)
                        /\ seq' = 1 - seq
                        /\ pending' = Idle

\* set_episode_playcount, lines 146-148: the SetEpisodeDetails request, sent
\* to the library as it is by then
SetEpisodePlaycountUpdate ==
    LET set == "VideoLibrary.SetEpisodeDetails"
        setp == [episodeid |-> pending.episode_id,
                 playcount |-> pending.playcount]
    IN  /\ pending.pc = "line146"
        /\ \E reply2 \in HostReplies(library, set, setp) :
              LET r == send_json_rpc(set, setp, reply2)
              IN  /\ last' = Summary("set_episode_playcount",
                                     <<pending.episode_id, pending.playcount>>,
                                     r.err, "None", "none", FALSE,
                                     pending.calls \o
                                     <<[method |-> set, params |-> setp,
                                        reply |-> reply2]>>)
                  /\ library' = HostLibrary(library, set, setp)
        /\ seq' = 1 - seq
        /\ pending' = Idle
        /\ UNCHANGED <<catalog, cache, state, _mapping>>

\* Kodi scans a new episode of a show into the library
ScanEpisode(e, t) ==
    /\ e \notin DOMAIN library
    /\ library' = [x \in (DOMAIN library) \cup {e} |->
                     IF x = e THEN [tvshowid |-> t, playcount |-> 0]
                     ELSE library[x]]
    /\ last' = EnvStep
    /\ UNCHANGED <<catalog, cache, state, _mapping, seq, pending>>

\* Kodi removes an episode from the library
CleanEpisode(e) ==
    /\ e \in DOMAIN library
    /\ library' = [x \in (DOMAIN library) \ {e} |-> library[x]]
    /\ last' = EnvStep
    /\ UNCHANGED <<catalog, cache, state, _mapping, seq, pending>>

\* Kodi plays an episode to its end
PlayEpisode(e) ==
    /\ e \in DOMAIN library
    /\ library[e].playcount < MaxPlaycount
    /\ library' = [library EXCEPT ![e].playcount = @ + 1]
    /\ last' = EnvStep
    /\ UNCHANGED <<catalog, cache, state, _mapping, seq, pending>>

Init ==
    /\ catalog = NoCatalog
    /\ cache = CacheAbsent
    /\ state = "UNINITIALIZED"
    /\ _mapping = EmptyDict
    /\ library = NoLibrary
    /\ pending = Idle
    /\ last = EnvStep
    /\ seq = 0

\* the add-on with a profile directory that can be written and that nothing
\* else writes
Next ==
    \/ \E file \in InstalledCatalogs : InstallCatalog(file)
    \/ RemoveCatalog
    \/ Initialize("ok")
    \/ \E en_string \in EnStrings : Gettext(en_string)

Spec == Init /\ [][Next]_vars

\* the same with a cache file that other programs write too
NextTamper ==
    \/ \E file \in InstalledCatalogs : InstallCatalog(file)
    \/ RemoveCatalog
    \/ Initialize("ok")
    \/ \E en_string \in EnStrings : Gettext(en_string)
    \/ \E file \in ForeignCaches : TamperCache(file)

SpecTamper == Init /\ [][NextTamper]_vars

\* the same with writes of the cache file that may fail
NextWriteFail ==
    \/ \E file \in InstalledCatalogs : InstallCatalog(file)
    \/ RemoveCatalog
    \/ \E outcome \in WriteOutcomes : Initialize(outcome)
    \/ \E en_string \in EnStrings : Gettext(en_string)

SpecWriteFail == Init /\ [][NextWriteFail]_vars

\* _parse_strings_po by itself, on every catalog of at most MaxRecords records
ParseStringsPo ==
    /\ last.op = "env"
    /\ last' = Summary("_parse_strings_po", NoArg, "none",
                       _parse_strings_po(_load_strings_po(catalog)),
                       "none", FALSE, NoCalls)
    /\ seq' = 1 - seq
    /\ UNCHANGED <<catalog, cache, state, _mapping, library, pending>>

InitParse ==
    /\ catalog \in CatalogFiles(PoRecord, MaxRecords, Layouts)
    /\ cache = CacheAbsent
    /\ state = "UNINITIALIZED"
    /\ _mapping = EmptyDict
    /\ library = NoLibrary
    /\ pending = Idle
    /\ last = EnvStep
    /\ seq = 0

NextParse == ParseStringsPo

SpecParse == InitParse /\ [][NextParse]_vars

\* the JSON-RPC wrappers over a library that Kodi changes
NextRpc ==
    \/ GetTvshows
    \/ \E t \in TvShowIds : GetEpisodes(t)
    \/ GetRecentEpisodes
    \/ \E e \in EpisodeIds : GetEpisodeDetails(e)
    \/ \E e \in EpisodeIds, p \in {0, 1} : SetEpisodePlaycount(e, p)
    \/ SetEpisodePlaycountUpdate
    \/ \E e \in EpisodeIds, t \in TvShowIds : ScanEpisode(e, t)
    \/ \E e \in EpisodeIds : CleanEpisode(e)
    \/ \E e \in EpisodeIds : PlayEpisode(e)

SpecRpc == Init /\ [][NextRpc]_vars

(***************************************************************************)
(* Properties                                                              *)
(***************************************************************************)
\* the digest of strings.po as it is now, and the mapping parsed from it
CatalogDigest == Md5HexDigest(_load_strings_po(catalog))
CatalogMapping == _parse_strings_po(_load_strings_po(catalog))

\* this step is a call of op
IsCall(op) == last'.op = op /\ seq' # seq

\* the cache file holds a pickle of the add-on whose digest is not that of
\* strings.po
StaleCache ==
    /\ cache.kind = "dict"
    /\ "md5" \in cache.keys
    /\ cache.md5 # CatalogDigest

\* C1 Self-healing: LocalizationService() run on a cache file whose stored
\* digest differs from the digest of strings.po parses strings.po, keeps the
\* parsed mapping and leaves the cache file holding {new digest, that
\* mapping}; the next LocalizationService() on the unchanged strings.po
\* takes the cache-hit path.
C1_SelfHealing ==
    [][(IsCall("initialize") /\ PathExists(catalog)) =>
         /\ StaleCache =>
              /\ last'.err = "none"
              /\ last'.path = "rebuild"
              /\ last'.wrote
              /\ state' = "READY"
              /\ _mapping' = CatalogMapping
              /\ cache' = PickleDump(CatalogMapping, CatalogDigest)
         /\ (/\ last.op = "initialize"
             /\ last.arg = "dict"
             /\ last.path = "rebuild"
             /\ last.err = "none") =>
              /\ last'.err = "none"
              /\ last'.path = "hit"
              /\ cache' = cache]_vars

\* a stale cache file has just been replaced by a fresh one
C1_Witness ==
    /\ last.op = "initialize"
    /\ last.arg = "dict"
    /\ last.path = "rebuild"
    /\ last.err = "none"
    /\ _mapping # EmptyDict
    /\ cache = PickleDump(CatalogMapping, CatalogDigest)

\* C2 Idempotence of initialize: a LocalizationService() that directly
\* follows a successful one, strings.po unchanged, gives the same mapping
\* and is a cache hit that does not write the cache file.
C2_InitializeIdempotent ==
    [][(/\ last.op = "initialize"
        /\ last.err = "none"
        /\ IsCall("initialize")) =>
         /\ last'.err = "none"
         /\ state' = "READY"
         /\ _mapping' = _mapping
         /\ last'.path = "hit"
         /\ ~last'.wrote
         /\ cache' = cache]_vars

\* a cache hit has given a mapping that is not empty
C2_Witness ==
    /\ last.op = "initialize"
    /\ last.path = "hit"
    /\ ~last.wrote
    /\ state = "READY"
    /\ _mapping = CatalogMapping
    /\ _mapping # EmptyDict

\* the cache file is absent, cannot be unpickled, or is a pickle of the
\* wrong shape
Unreadable(file) ==
    \/ file.kind \in {"absent", "truncated", "malformed", "list"}
    \/ file.kind = "dict" /\ ~({"md5", "strings"} \subseteq file.keys)

\* C3 Corrupt-cache tolerance: whatever makes the cache file unreadable,
\* LocalizationService() raises nothing, takes the rebuild path and holds
\* the mapping parsed from strings.po.
C3_CorruptCacheTolerated ==
    [][(IsCall("initialize") /\ PathExists(catalog) /\ Unreadable(cache)) =>
         /\ last'.err = "none"
         /\ state' = "READY"
         /\ last'.path = "rebuild"
         /\ _mapping' = CatalogMapping]_vars

\* C4 Missing catalog: LocalizationService() with no strings.po raises
\* LocalizationError, no instance exists afterwards, and the cache file is
\* as it was, whatever it was.
C4_MissingCatalog ==
    [][(IsCall("initialize") /\ ~catalog.exists) =>
         /\ last'.err = "LocalizationError"
         /\ state' = "UNINITIALIZED"
         /\ ~last'.wrote
         /\ cache' = cache]_vars

\* the call has failed for the missing strings.po beside an existing cache file
C4_Witness ==
    /\ last.op = "initialize"
    /\ last.err = "LocalizationError"
    /\ ~catalog.exists
    /\ cache.kind # "absent"
    /\ state = "UNINITIALIZED"

\* C5 Cache validity after any history: when only LocalizationService()
\* writes the cache file, each successful LocalizationService() leaves the
\* cache file a {md5, strings} pickle with (a) md5 the digest of strings.po,
\* (b) strings the mapping in memory and (c) that mapping the one parsed
\* from strings.po.
C5_CacheValid ==
    (last.op = "initialize" /\ last.err = "none") =>
        /\ state = "READY"
        /\ cache.kind = "dict"
        /\ cache.keys = {"md5", "strings"}
        /\ cache.md5 = CatalogDigest
        /\ cache.strings = _mapping
        /\ _mapping = CatalogMapping

\* a successful call has left a cache file that was there before it: a hit
\* on a catalog in .po layout whose mapping is not empty
C5_Witness ==
    /\ last.op = "initialize"
    /\ last.err = "none"
    /\ last.arg = "dict"
    /\ last.path = "hit"
    /\ catalog.layout = "po"
    /\ _mapping # EmptyDict

\* C6 Unknown lookup: gettext(s) of an instance raises LocalizationError
\* exactly when s is no key of the mapping, and then Kodi is not called;
\* when s is a key it returns Kodi's getLocalizedString of mapping[s].
\* Either way the mapping and the cache file stay as they were.
C6_UnknownLookup ==
    [][IsCall("gettext") =>
         LET s == last'.arg
         IN  /\ state = "READY"
             /\ last'.err \in {"none", "LocalizationError"}
             /\ (last'.err = "LocalizationError") <=> (s \notin DOMAIN _mapping)
             /\ (s \notin DOMAIN _mapping) => last'.calls = NoCalls
             /\ (s \in DOMAIN _mapping) =>
                  /\ last'.ret = getLocalizedString(_mapping[s])
                  /\ Len(last'.calls) = 1
                  /\ last'.calls[1].method = "getLocalizedString"
                  /\ last'.calls[1].params = _mapping[s]
             /\ _mapping' = _mapping
             /\ state' = state
             /\ cache' = cache]_vars

\* gettext of a string that is not in a mapping with keys has raised
C6_Witness ==
    /\ last.op = "gettext"
    /\ last.arg = "NoSuchString"
    /\ last.err = "LocalizationError"
    /\ last.calls = NoCalls
    /\ "Play" \in DOMAIN _mapping

\* the mapping a catalog of records stands for: the strings that are not
\* empty, each with the id of the last record that carries it
ExpectedMapping(recs) ==
    LET keys == {recs[i].s : i \in DOMAIN recs} \ {""}
    IN  [k \in keys |-> recs[SetMax({i \in DOMAIN recs : recs[i].s = k})].id]

\* C7 Parsing correctness: _parse_strings_po of a catalog of (id, string)
\* records gives exactly the non-empty strings as keys, each with the id of
\* the last record carrying it.
C7_ParsingCorrect ==
    (last.op = "_parse_strings_po") => last.ret = ExpectedMapping(catalog.records)

\* the catalog (100, Play), (101, ""), (102, Stop) has been parsed to
\* {Play: 100, Stop: 102}
C7_Witness ==
    /\ last.op = "_parse_strings_po"
    /\ catalog.records = <<[id |-> 100, s |-> "Play"], [id |-> 101, s |-> ""],
                           [id |-> 102, s |-> "Stop"]>>
    /\ DOMAIN last.ret = {"Play", "Stop"}
    /\ last.ret["Play"] = 100
    /\ last.ret["Stop"] = 102

ListQueries == {"get_tvshows", "get_episodes", "get_recent_episodes"}
ExpectedKey(op) == IF op = "get_tvshows" THEN "tvshows" ELSE "episodes"

\* C8 No-data rule: get_tvshows, get_episodes and get_recent_episodes raise
\* NoDataError when the result lacks the expected key or holds an empty list
\* under it, else return the list under the key; never an empty list.
C8_NoDataRule ==
    (last.op \in ListQueries /\ "result" \in DOMAIN last.calls[1].reply) =>
        LET result == last.calls[1].reply.result
            key == ExpectedKey(last.op)
            nodata == key \notin DOMAIN result \/ result[key] = << >>
        IN  /\ last.err = (IF nodata THEN "NoDataError" ELSE "none")
            /\ ~nodata => last.ret = result[key]
            /\ last.err = "none" => last.ret # << >>

\* a query has raised NoDataError on a result holding an empty list
C8_Witness ==
    /\ last.op = "get_episodes"
    /\ last.err = "NoDataError"
    /\ "episodes" \in DOMAIN last.calls[1].reply.result
    /\ last.calls[1].reply.result.episodes = << >>
    /\ DOMAIN library # {}

\* C9 Cache write failure is not distinguished from success: when
\* LocalizationService() takes the rebuild path it ends with an instance
\* holding the rebuilt mapping even if the write of the cache file fails,
\* and LocalizationService() and gettext raise LocalizationError or nothing.
C9_WriteFailureAbsorbed ==
    /\ (last.op = "initialize" /\ last.path = "rebuild") =>
           /\ last.err = "none"
           /\ state = "READY"
           /\ _mapping = CatalogMapping
    /\ (last.op \in {"initialize", "gettext"}) =>
           last.err \in {"none", "LocalizationError"}

\* C10 set_episode_playcount(e, p), p 0 or 1, on an episode of the library:
\* reads the episode's details first and goes on to send SetEpisodeDetails
\* {e, p} exactly when p differs from the watched flag of the playcount
\* stored then; a stored playcount above 1 is kept when p = 1; when the call
\* is over and the episode is in the library its watched flag is p; the
\* same call repeated at once sends no update.
C10_SetPlaycount ==
    [][/\ (pending = Idle /\ (IsCall("set_episode_playcount") \/ pending' # Idle)) =>
            LET over == pending' = Idle
                e == IF over THEN last'.arg[1] ELSE pending'.episode_id
                p == IF over THEN last'.arg[2] ELSE pending'.playcount
                sent == IF over THEN last'.calls ELSE pending'.calls
            IN  /\ Len(sent) = 1
                /\ sent[1].method = "VideoLibrary.GetEpisodeDetails"
                /\ sent[1].params.episodeid = e
                /\ library' = library
                /\ (e \in DOMAIN library) =>
                     LET n == library[e].playcount
                         flag == IF n > 0 THEN 1 ELSE 0
                     IN  /\ over <=> (p = flag)
                         /\ over => last'.err = "none"
                         /\ (n > 1 /\ p = 1) => over
                /\ (/\ last.op = "set_episode_playcount"
                    /\ last.err = "none"
                    /\ last.arg = <<e, p>>) => over /\ last'.err = "none"
       /\ (pending # Idle /\ pending' = Idle) =>
            LET e == pending.episode_id
                p == pending.playcount
                sent == last'.calls
            IN  /\ last'.op = "set_episode_playcount"
                /\ last'.arg = <<e, p>>
                /\ Len(sent) = 2
                /\ sent[1] = pending.calls[1]
                /\ sent[2].method = "VideoLibrary.SetEpisodeDetails"
                /\ sent[2].params = [episodeid |-> e, playcount |-> p]
                /\ (last'.err = "none") <=> (e \in DOMAIN library)
                /\ \A x \in DOMAIN library \ {e} : library'[x] = library[x]
                /\ DOMAIN library' = DOMAIN library
       /\ IsCall("set_episode_playcount") =>
            LET e == last'.arg[1]
                p == last'.arg[2]
            IN  (e \in DOMAIN library') =>
                    /\ last'.err = "none"
                    /\ (IF library'[e].playcount > 0 THEN 1 ELSE 0) = p]_vars

\* an episode played twice has been marked watched and keeps its playcount
C10_Witness ==
    /\ last.op = "set_episode_playcount"
    /\ last.err = "none"
    /\ last.arg[2] = 1
    /\ Len(last.calls) = 1
    /\ last.arg[1] \in DOMAIN library
    /\ library[last.arg[1]].playcount = 2

====
